---- MODULE Spec2Model ----
(***************************************************************************)
(* Model of run.py, the command-line driver of the DCAN fMRI pipeline.     *)
(*                                                                         *)
(* _cli parses the command line and calls interface; interface checks the  *)
(* input directory, creates the output directory, asks read_bids_dataset   *)
(* for the sessions and, for each session in turn, builds a configuration  *)
(* and seven stage objects and calls run(ncpus) on the selected ones.      *)
(*                                                                         *)
(* The collaborators (read_bids_dataset, HCPConfiguration, the stage       *)
(* classes) are outside run.py.  They appear here only through what run.py *)
(* observes of them: the sequence of sessions discovery yields (env), and  *)
(* whether a run call returns or raises.  Every call run.py makes on them  *)
(* is appended to trace, so the properties are statements about the order  *)
(* and the arguments of those calls.                                       *)
(*                                                                         *)
(* Text values (paths, ids, the --ncpus word) are sequences of tokens; "/" *)
(* is the path separator token.  An optional command-line value is <<>>    *)
(* when the option is absent (Python None) and <<v>> when it is given.     *)
(***************************************************************************)
EXTENDS Integers, Sequences, FiniteSets, TLC

VARIABLES env, argv, pc, ncpus, start_stage, out_exists, session_generator,
          k, session_conf, order, i, trace

vars == <<env, argv, pc, ncpus, start_stage, out_exists, session_generator,
          k, session_conf, order, i, trace>>

(***************************************************************************)
(* Bounds and input sets                                                   *)
(***************************************************************************)
MaxSessions == 2

DefaultNcpus == 1

SessionValues ==
    { [subject |-> <<"01">>, session |-> <<"A">>],
      [subject |-> <<"02">>, session |-> <<"B">>] }

RECURSIVE SeqsUpTo(_, _)
SeqsUpTo(S, n) ==
    IF n = 0 THEN { <<>> }
    ELSE LET shorter == SeqsUpTo(S, n - 1)
         IN  shorter \cup { Append(s, x) : s \in shorter, x \in S }

Datasets == SeqsUpTo(SessionValues, MaxSessions)

OutputDirs == { <<"out">>, <<"/", "data", "/">> }

NcpusWords == { <<"4">>, <<"0">>, <<"-", "1">>, <<"x">> }

StageWords == { "", "freesurfer", "PreFreeSurfer", "FreeSurfer",
                "PostFreeSurfer", "FMRIVolume", "FMRISurface",
                "DCANSignalPreprocessing", "ExecutiveSummary" }

Opt(S) == { <<>> } \cup { <<v>> : v \in S }

(***************************************************************************)
(* Library functions run.py relies on, by what they do                     *)
(***************************************************************************)
Digits == { "0", "1", "2", "3", "4", "5", "6", "7", "8", "9" }

DigitVal(c) ==
    CASE c = "0" -> 0 [] c = "1" -> 1 [] c = "2" -> 2 [] c = "3" -> 3
      [] c = "4" -> 4 [] c = "5" -> 5 [] c = "6" -> 6 [] c = "7" -> 7
      [] c = "8" -> 8 [] c = "9" -> 9

RECURSIVE DigitsVal(_)
DigitsVal(s) ==
    IF s = <<>> THEN 0
    ELSE DigitsVal(SubSeq(s, 1, Len(s) - 1)) * 10 + DigitVal(s[Len(s)])

Signed(w) == w # <<>> /\ w[1] \in { "-", "+" }

Body(w) == IF Signed(w) THEN Tail(w) ELSE w

\* int(w) succeeds: an optional sign followed by at least one digit
IsInt(w) == Body(w) # <<>> /\ \A j \in DOMAIN Body(w) : Body(w)[j] \in Digits

\* int(w)
ToInt(w) == IF Signed(w) /\ w[1] = "-" THEN 0 - DigitsVal(Body(w))
            ELSE DigitsVal(Body(w))

\* os.path.join(a, b) on a POSIX system
PathJoin(a, b) ==
    IF b # <<>> /\ b[1] = "/" THEN b
    ELSE IF a = <<>> \/ a[Len(a)] = "/" THEN a \o b
    ELSE a \o <<"/">> \o b

\* prefix % word   ('sub-%s' % x)
Fmt(prefix, word) == <<prefix>> \o word

\* Python truth value of an optional string: None and '' are false
Truthy(v) == v # <<>> /\ v[1] # ""

\* names.index(x): the first position of x
IndexOf(names, x) ==
    CHOOSE j \in DOMAIN names : names[j] = x /\ \A m \in 1..(j - 1) : names[m] # x

\* seq[j:] with j counted from 1
From(seq, j) == SubSeq(seq, j, Len(seq))

(***************************************************************************)
(* The program                                                             *)
(***************************************************************************)
\* the stage classes in the order interface puts their objects in `order`
StageNames_swapped ==
    << "PreFreeSurfer", "PostFreeSurfer", "FreeSurfer", "FMRIVolume",
       "FMRISurface", "DCANSignalPreprocessing", "ExecutiveSummary" >>

StageNames ==
    << "PreFreeSurfer", "FreeSurfer", "PostFreeSurfer", "FMRIVolume",
       "FMRISurface", "DCANSignalPreprocessing", "ExecutiveSummary" >>

NoSession == [subject |-> <<>>, session |-> <<>>]

NoConf == [id |-> 0, session |-> NoSession, out_dir |-> <<>>]

Ev(e, kk, cls, conf, n) == [ev |-> e, k |-> kk, cls |-> cls, conf |-> conf, n |-> n]

\* out_dir of a session
OutDir_swapped(output_dir, session) ==
    PathJoin(PathJoin(output_dir, Fmt("ses-", session.session)),
             Fmt("sub-", session.subject))

OutDir(output_dir, session) ==
    PathJoin(PathJoin(output_dir, Fmt("sub-", session.subject)),
             Fmt("ses-", session.session))

\* the stages to run, given the seven objects and the start stage
SelectOrder(objs, start) ==
    From(objs, IndexOf([j \in DOMAIN objs |-> objs[j].cls], start))

Init ==
    /\ env \in [bids_isdir : BOOLEAN, out_isdir : BOOLEAN, dataset : Datasets]
    /\ argv \in [output_dir : OutputDirs, ncpus : Opt(NcpusWords),
                 stage : Opt(StageWords)]
    /\ pc = "cli"
    /\ ncpus = DefaultNcpus
    /\ start_stage = <<>>
    /\ out_exists = env.out_isdir
    /\ session_generator = <<>>
    /\ k = 0
    /\ session_conf = NoConf
    /\ order = <<>>
    /\ i = 0
    /\ trace = <<>>

\* _cli: parse_args, then the call of interface
ParseArgs ==
    /\ pc = "cli"
    /\ IF argv.ncpus # <<>> /\ ~IsInt(argv.ncpus[1])
       THEN /\ pc' = "usage_error"
            /\ UNCHANGED <<ncpus, start_stage>>
       ELSE /\ ncpus' = IF argv.ncpus = <<>> THEN DefaultNcpus
                        ELSE ToInt(argv.ncpus[1])
            /\ start_stage' = argv.stage
            /\ pc' = "interface"
    /\ UNCHANGED <<env, argv, out_exists, session_generator, k, session_conf,
                   order, i, trace>>

\* assert os.path.isdir(bids_dir)
AssertBidsDir_late ==
    /\ pc = "interface"
    /\ IF env.bids_isdir
       THEN pc' = "makedirs" /\ UNCHANGED <<out_exists, trace>>
       ELSE /\ pc' = "AssertionError"
            /\ out_exists' = TRUE
            /\ trace' = IF out_exists THEN trace
                        ELSE Append(trace, Ev("makedirs", 0, "",
                                 [NoConf EXCEPT !.out_dir = argv.output_dir], 0))
    /\ UNCHANGED <<env, argv, ncpus, start_stage, session_generator, k,
                   session_conf, order, i>>

AssertBidsDir ==
    /\ pc = "interface"
    /\ pc' = IF env.bids_isdir THEN "makedirs" ELSE "AssertionError"
    /\ UNCHANGED <<env, argv, ncpus, start_stage, out_exists,
                   session_generator, k, session_conf, order, i, trace>>

\* if not os.path.isdir(output_dir): os.makedirs(output_dir)
MakeOutputDir ==
    /\ pc = "makedirs"
    /\ IF out_exists
       THEN UNCHANGED <<out_exists, trace>>
       ELSE /\ out_exists' = TRUE
            /\ trace' = Append(trace, Ev("makedirs", 0, "",
                            [NoConf EXCEPT !.out_dir = argv.output_dir], 0))
    /\ pc' = "read"
    /\ UNCHANGED <<env, argv, ncpus, start_stage, session_generator, k,
                   session_conf, order, i>>

\* session_generator = read_bids_dataset(...)
ReadDataset ==
    /\ pc = "read"
    /\ session_generator' = env.dataset
    /\ trace' = Append(trace, Ev("read", 0, "", NoConf, 0))
    /\ pc' = "for_session"
    /\ UNCHANGED <<env, argv, ncpus, start_stage, out_exists, k,
                   session_conf, order, i>>

\* for session in session_generator, with the construction of its
\* configuration; the loop ends, and interface returns, when the generator is
\* exhausted
NextSession_last ==
    /\ pc = "for_session"
    /\ IF session_generator = <<>>
       THEN /\ pc' = "done"
            /\ UNCHANGED <<session_generator, k, session_conf, trace>>
       ELSE LET n == Len(session_generator)
                session == session_generator[n]
                conf == [id |-> k + 1, session |-> session,
                         out_dir |-> OutDir(argv.output_dir, session)]
            IN  /\ session_generator' = SubSeq(session_generator, 1, n - 1)
                /\ k' = k + 1
                /\ session_conf' = conf
                /\ trace' = Append(trace, Ev("conf", k + 1, "", conf, 0))
                /\ pc' = "create"
    /\ UNCHANGED <<env, argv, ncpus, start_stage, out_exists, order, i>>

NextSession ==
    /\ pc = "for_session"
    /\ IF session_generator = <<>>
       THEN /\ pc' = "done"
            /\ UNCHANGED <<session_generator, k, session_conf, trace>>
       ELSE LET session == Head(session_generator)
                conf == [id |-> k + 1, session |-> session,
                         out_dir |-> OutDir(argv.output_dir, session)]
            IN  /\ session_generator' = Tail(session_generator)
                /\ k' = k + 1
                /\ session_conf' = conf
                /\ trace' = Append(trace, Ev("conf", k + 1, "", conf, 0))
                /\ pc' = "create"
    /\ UNCHANGED <<env, argv, ncpus, start_stage, out_exists, order, i>>

\* the seven constructor calls and order = [pre, ..., execsum]
CreatePipelines ==
    /\ pc = "create"
    /\ order' = [j \in DOMAIN StageNames |->
                    [cls |-> StageNames[j], conf |-> session_conf]]
    /\ trace' = trace \o [j \in DOMAIN StageNames |->
                             Ev("ctor", k, StageNames[j], session_conf, 0)]
    /\ pc' = "select"
    /\ UNCHANGED <<env, argv, ncpus, start_stage, out_exists,
                   session_generator, k, session_conf, i>>

\* if start_stage: assert start_stage in names; order = order[index:]
SelectStart_lenient ==
    /\ pc = "select"
    /\ IF ~Truthy(start_stage)
       THEN pc' = "for_stage" /\ UNCHANGED order
       ELSE IF \E j \in DOMAIN order : order[j].cls = start_stage[1]
            THEN pc' = "for_stage" /\ order' = SelectOrder(order, start_stage[1])
            ELSE pc' = "for_stage" /\ UNCHANGED order
    /\ i' = 0
    /\ UNCHANGED <<env, argv, ncpus, start_stage, out_exists,
                   session_generator, k, session_conf, trace>>

SelectStart_firstonly ==
    /\ pc = "select"
    /\ IF ~Truthy(start_stage) \/ k > 1
       THEN pc' = "for_stage" /\ UNCHANGED order
       ELSE IF \E j \in DOMAIN order : order[j].cls = start_stage[1]
            THEN pc' = "for_stage" /\ order' = SelectOrder(order, start_stage[1])
            ELSE pc' = "AssertionError" /\ UNCHANGED order
    /\ i' = 0
    /\ UNCHANGED <<env, argv, ncpus, start_stage, out_exists,
                   session_generator, k, session_conf, trace>>

SelectStart ==
    /\ pc = "select"
    /\ IF ~Truthy(start_stage)
       THEN pc' = "for_stage" /\ UNCHANGED order
       ELSE IF \E j \in DOMAIN order : order[j].cls = start_stage[1]
            THEN pc' = "for_stage" /\ order' = SelectOrder(order, start_stage[1])
            ELSE pc' = "AssertionError" /\ UNCHANGED order
    /\ i' = 0
    /\ UNCHANGED <<env, argv, ncpus, start_stage, out_exists,
                   session_generator, k, session_conf, trace>>

\* for stage in order
NextStage_skipfirst ==
    /\ pc = "for_stage"
    /\ LET nxt == IF i = 0 THEN 2 ELSE i + 1
       IN  IF nxt <= Len(order)
           THEN i' = nxt /\ pc' = "call"
           ELSE i' = i /\ pc' = "for_session"
    /\ UNCHANGED <<env, argv, ncpus, start_stage, out_exists,
                   session_generator, k, session_conf, order, trace>>

NextStage ==
    /\ pc = "for_stage"
    /\ IF i < Len(order)
       THEN i' = i + 1 /\ pc' = "call"
       ELSE i' = i /\ pc' = "for_session"
    /\ UNCHANGED <<env, argv, ncpus, start_stage, out_exists,
                   session_generator, k, session_conf, order, trace>>

\* stage.run(ncpus): the call
CallRun_clamped ==
    /\ pc = "call"
    /\ trace' = Append(trace, Ev("call", k, order[i].cls, order[i].conf,
                                 IF ncpus < 1 THEN 1 ELSE ncpus))
    /\ pc' = "in_run"
    /\ UNCHANGED <<env, argv, ncpus, start_stage, out_exists,
                   session_generator, k, session_conf, order, i>>

CallRun ==
    /\ pc = "call"
    /\ trace' = Append(trace, Ev("call", k, order[i].cls, order[i].conf, ncpus))
    /\ pc' = "in_run"
    /\ UNCHANGED <<env, argv, ncpus, start_stage, out_exists,
                   session_generator, k, session_conf, order, i>>

\* stage.run(ncpus) returns
RunReturn ==
    /\ pc = "in_run"
    /\ trace' = Append(trace, Ev("ret", k, order[i].cls, order[i].conf, ncpus))
    /\ pc' = "for_stage"
    /\ UNCHANGED <<env, argv, ncpus, start_stage, out_exists,
                   session_generator, k, session_conf, order, i>>

\* stage.run(ncpus) raises; nothing in interface catches it
RunRaise_caught ==
    /\ pc = "in_run"
    /\ trace' = Append(trace, Ev("raise", k, order[i].cls, order[i].conf, ncpus))
    /\ pc' = "for_stage"
    /\ UNCHANGED <<env, argv, ncpus, start_stage, out_exists,
                   session_generator, k, session_conf, order, i>>

RunRaise ==
    /\ pc = "in_run"
    /\ trace' = Append(trace, Ev("raise", k, order[i].cls, order[i].conf, ncpus))
    /\ pc' = "raised"
    /\ UNCHANGED <<env, argv, ncpus, start_stage, out_exists,
                   session_generator, k, session_conf, order, i>>

Next ==
    \/ ParseArgs
    \/ AssertBidsDir
    \/ MakeOutputDir
    \/ ReadDataset
    \/ NextSession
    \/ CreatePipelines
    \/ SelectStart
    \/ NextStage
    \/ CallRun
    \/ RunReturn
    \/ RunRaise

Spec == Init /\ [][Next]_vars

\* the interpreter keeps executing the one thread of the program, and a run
\* call that has been made comes back (by returning or by raising)
FairSpec == Spec /\ WF_vars(Next)

(***************************************************************************)
(* Vocabulary of the properties                                            *)
(***************************************************************************)
\* the order of the stages, as the documentation of --stage lists it
ExpectedOrder ==
    << "PreFreeSurfer", "FreeSurfer", "PostFreeSurfer", "FMRIVolume",
       "FMRISurface", "DCANSignalPreprocessing", "ExecutiveSummary" >>

Known(s) == \E j \in DOMAIN ExpectedOrder : ExpectedOrder[j] = s

\* the stage classes of the events of kind e of session kk, in trace order
RECURSIVE Pick(_, _, _)
Pick(t, e, kk) ==
    IF t = <<>> THEN <<>>
    ELSE (IF Head(t).ev = e /\ Head(t).k = kk THEN <<Head(t).cls>> ELSE <<>>)
         \o Pick(Tail(t), e, kk)

IsPrefix(a, b) == Len(a) <= Len(b) /\ a = SubSeq(b, 1, Len(a))

Count(e, kk, cls) ==
    Cardinality({ j \in DOMAIN trace :
                    trace[j].ev = e /\ trace[j].k = kk /\ trace[j].cls = cls })

CountAll(e) == Cardinality({ j \in DOMAIN trace : trace[j].ev = e })

\* the loop body of session kk has been left through its end
SessionOver(kk) == kk \in 1..k /\ (k > kk \/ pc \in {"for_session", "done"})

\* the stages a start stage selects (None and '' select all of them)
Selected ==
    IF start_stage = <<>> \/ start_stage[1] = "" THEN ExpectedOrder
    ELSE IF Known(start_stage[1])
         THEN From(ExpectedOrder, IndexOf(ExpectedOrder, start_stage[1]))
         ELSE <<>>

Unknown == start_stage # <<>> /\ start_stage[1] # "" /\ ~Known(start_stage[1])

Terminated == pc \in {"done", "usage_error", "AssertionError", "raised"}

\* a path cut at its separators
RECURSIVE Components(_)
Components(p) ==
    IF p = <<>> THEN <<>>
    ELSE IF Head(p) = "/" THEN Components(Tail(p))
    ELSE LET stops == { j \in DOMAIN p : p[j] = "/" } \cup { Len(p) + 1 }
             n == CHOOSE j \in stops : \A m \in stops : j <= m
         IN  <<SubSeq(p, 1, n - 1)>> \o Components(SubSeq(p, n, Len(p)))

(***************************************************************************)
(* Properties                                                              *)
(***************************************************************************)
\* C1: without a start stage (None) the run calls of every session happen in
\* the order PreFreeSurfer, FreeSurfer, PostFreeSurfer, FMRIVolume,
\* FMRISurface, DCANSignalPreprocessing, ExecutiveSummary, all seven once the
\* session is over, and a stage is called only after the preceding stage of
\* the same session has returned.
C1_FixedOrder ==
    (pc # "cli" /\ start_stage = <<>>) =>
        /\ \A kk \in 1..k :
              /\ IsPrefix(Pick(trace, "call", kk), ExpectedOrder)
              /\ SessionOver(kk) => Pick(trace, "call", kk) = ExpectedOrder
        /\ \A j \in DOMAIN trace :
              (trace[j].ev = "call" /\ trace[j].cls # ExpectedOrder[1]) =>
                  /\ j > 1
                  /\ trace[j - 1].ev = "ret"
                  /\ trace[j - 1].k = trace[j].k
                  /\ Known(trace[j].cls)
                  /\ trace[j - 1].cls =
                        ExpectedOrder[IndexOf(ExpectedOrder, trace[j].cls) - 1]

C1_Witness ==
    /\ pc = "done" /\ argv.stage = <<>> /\ k >= 2
    /\ Pick(trace, "call", 2) = ExpectedOrder

\* C2: with a start stage that is one of the seven class names, the run calls
\* of every session, the first and the later ones alike, are the named stage
\* followed by the later stages in the fixed order; no stage before the named
\* one is ever run.
C2_ResumeEverySession ==
    (pc # "cli" /\ start_stage # <<>> /\ Known(start_stage[1])) =>
        /\ \A kk \in 1..k :
              /\ IsPrefix(Pick(trace, "call", kk), Selected)
              /\ SessionOver(kk) => Pick(trace, "call", kk) = Selected
        /\ \A j \in DOMAIN trace :
              trace[j].ev = "call" =>
                  /\ Known(trace[j].cls)
                  /\ IndexOf(ExpectedOrder, trace[j].cls)
                        >= IndexOf(ExpectedOrder, start_stage[1])

C2_Witness ==
    /\ pc = "done" /\ start_stage = <<"FMRIVolume">> /\ k >= 2
    /\ Pick(trace, "call", 2) =
          <<"FMRIVolume", "FMRISurface", "DCANSignalPreprocessing",
            "ExecutiveSummary">>

\* C3: sessions are handled one after the other in the order discovery yields
\* them: the k-th configuration is that of the k-th yielded session, nothing
\* of session k+1 (configuration, constructors, runs) happens before every
\* selected stage of session k has returned, and between a run call and its
\* return nothing else happens.
C3_Serial ==
    /\ \A a, b \in DOMAIN trace : a < b => trace[a].k <= trace[b].k
    /\ \A j \in DOMAIN trace :
          /\ trace[j].ev = "conf" =>
                /\ trace[j].k \in 1..Len(env.dataset)
                /\ trace[j].conf.session = env.dataset[trace[j].k]
                /\ trace[j].k > 1 =>
                      Pick(SubSeq(trace, 1, j - 1), "ret", trace[j].k - 1)
                         = Selected
          /\ (trace[j].ev = "call" /\ j < Len(trace)) =>
                /\ trace[j + 1].ev \in {"ret", "raise"}
                /\ trace[j + 1].k = trace[j].k
                /\ trace[j + 1].cls = trace[j].cls
    /\ CountAll("call") - CountAll("ret") - CountAll("raise") \in {0, 1}

C3_Witness ==
    /\ pc = "done" /\ k >= 2 /\ Len(env.dataset) >= 2
    /\ env.dataset[1] # env.dataset[2]
    /\ CountAll("ret") >= 2

\* C4: if bids_dir is not a directory, interface goes from its entry to the
\* assertion failure and nowhere else, and nothing has happened: the output
\* directory is as it was, discovery was not called, no configuration or
\* stage was constructed, no stage was run.
C4_BidsDirAsserted ==
    ~env.bids_isdir =>
        /\ pc \in {"cli", "usage_error", "interface", "AssertionError"}
        /\ trace = <<>>
        /\ out_exists = env.out_isdir
        /\ session_generator = <<>>
        /\ session_conf = NoConf
        /\ order = <<>>

C4_Witness ==
    pc = "AssertionError" /\ ~env.bids_isdir /\ ~env.out_isdir /\ ~out_exists

\* C5: a --stage value that is not one of the seven class names (the empty
\* string included) never lets the program end normally, whatever the dataset
\* (an empty one included): it ends with an assertion failure.
C5_UnknownStageAlwaysFails ==
    (pc # "cli" /\ start_stage # <<>> /\ ~Known(start_stage[1])) =>
        /\ pc # "done"
        /\ CountAll("call") = 0

\* C6: every run call receives the ncpus value interface was given,
\* whatever it is (0 and negative values too); without --ncpus it is 1.
C6_NcpusForwarded ==
    \A j \in DOMAIN trace :
        trace[j].ev = "call" =>
            /\ trace[j].n = ncpus
            /\ argv.ncpus = <<>> => trace[j].n = 1
            /\ argv.ncpus = << <<"4">> >> => trace[j].n = 4
            /\ argv.ncpus = << <<"0">> >> => trace[j].n = 0
            /\ argv.ncpus = << <<"-", "1">> >> => trace[j].n = 0 - 1

C6_Witness ==
    /\ CountAll("call") >= 8
    /\ \A j \in DOMAIN trace : trace[j].ev = "call" => trace[j].n < 0

\* C7: the program terminates; and when bids_dir is a directory, the start
\* stage is None or a class name and no run has raised, it terminates by
\* returning from interface with every selected stage run exactly once for
\* each of the n yielded sessions, no other stage run, n times the number of
\* selected stages run calls in all.
C7_TerminatesAllRun ==
    /\ <>Terminated
    /\ [](( /\ Terminated
            /\ pc # "usage_error"
            /\ env.bids_isdir
            /\ (start_stage = <<>> \/ Known(start_stage[1]))
            /\ CountAll("raise") = 0 ) =>
          ( /\ pc = "done"
            /\ CountAll("call") = Len(env.dataset) * Len(Selected)
            /\ CountAll("ret") = CountAll("call")
            /\ \A kk \in 1..Len(env.dataset) :
                  \A j \in DOMAIN ExpectedOrder :
                      Count("call", kk, ExpectedOrder[j]) =
                          IF \E m \in DOMAIN Selected :
                                 Selected[m] = ExpectedOrder[j]
                          THEN 1 ELSE 0 ))

C7_Witness ==
    /\ pc = "done" /\ Len(env.dataset) >= 2
    /\ start_stage = <<"FMRISurface">>
    /\ CountAll("call") = Len(env.dataset) * 3

\* C8: with a non-empty start stage that is no class name and a dataset of at
\* least one session, no stage is ever run and the program does not get past
\* the first session: the assertion fails there, after the output directory
\* exists and the first configuration and all seven stage objects have been
\* constructed.
C8_UnknownStageFirstSession ==
    (pc # "cli" /\ Unknown) =>
        /\ CountAll("call") = 0
        /\ k <= 1
        /\ (env.bids_isdir /\ env.dataset # <<>>) => pc # "done"
        /\ (env.bids_isdir /\ pc = "AssertionError") =>
              /\ k = 1
              /\ out_exists
              /\ CountAll("read") = 1
              /\ CountAll("conf") = 1
              /\ session_conf.session = env.dataset[1]
              /\ Pick(trace, "ctor", 1) = ExpectedOrder

C8_Witness ==
    /\ pc = "AssertionError" /\ env.bids_isdir /\ Unknown
    /\ Len(env.dataset) >= 2 /\ ~env.out_isdir /\ out_exists
    /\ CountAll("ctor") = 7

\* C9: a run that raises ends the program: the raise is the last thing that
\* happens, no step follows it, what was logged before it stays as it was,
\* and no stage of a session is ever called twice.
C9_NoRecovery ==
    /\ [](/\ \A j \in DOMAIN trace :
                trace[j].ev = "raise" => (j = Len(trace) /\ pc = "raised")
          /\ pc = "raised" =>
                (trace # <<>> /\ trace[Len(trace)].ev = "raise")
          /\ \A a, b \in DOMAIN trace :
                ( /\ trace[a].ev = "call" /\ trace[b].ev = "call"
                  /\ trace[a].k = trace[b].k
                  /\ trace[a].cls = trace[b].cls ) => a = b)
    /\ [][pc # "raised" /\ IsPrefix(trace, trace')]_vars

C9_Witness ==
    /\ pc = "raised" /\ k = 1 /\ Len(env.dataset) >= 2
    /\ CountAll("ret") >= 2

\* C10: each session gets exactly one configuration, built from that session
\* and the path output_dir/sub-<subject>/ses-<session>; all seven stage
\* objects of the session are built from it, whatever the start stage; and
\* every run is the run of an object holding the configuration of the
\* session being processed.
C10_OneConfPerSession ==
    /\ \A kk \in 1..k :
          /\ Cardinality({ j \in DOMAIN trace :
                             trace[j].ev = "conf" /\ trace[j].k = kk }) = 1
          /\ (kk < k \/ pc # "create") => Pick(trace, "ctor", kk) = ExpectedOrder
    /\ \A j \in DOMAIN trace :
          /\ trace[j].ev = "conf" =>
                LET c == trace[j].conf IN
                /\ c.id = trace[j].k
                /\ c.session = env.dataset[trace[j].k]
                /\ Components(c.out_dir) =
                      Components(argv.output_dir)
                         \o << <<"sub-">> \o c.session.subject,
                               <<"ses-">> \o c.session.session >>
                /\ (c.out_dir[1] = "/") = (argv.output_dir[1] = "/")
          /\ trace[j].ev \in {"ctor", "call", "ret", "raise"} =>
                \E m \in 1..(j - 1) :
                    /\ trace[m].ev = "conf"
                    /\ trace[m].k = trace[j].k
                    /\ trace[m].conf = trace[j].conf

C10_Witness ==
    /\ pc = "done" /\ k >= 2 /\ env.dataset[1] # env.dataset[2]
    /\ start_stage = <<"ExecutiveSummary">>
    /\ CountAll("ctor") = 7 * k
    /\ CountAll("call") = k

====
